---- MODULE Spec2Model ----
(***************************************************************************)
(* The file-tailing sentiment consumer (consumers/consumer_montoya.py) and *)
(* the writer of its live data file (producers/producer_montoya.py).       *)
(*                                                                         *)
(* The live data file is a sequence of tokens, one token per unit of file  *)
(* offset: a line terminator, a blank, a text that is not JSON, a JSON     *)
(* scalar, or the text of one JSON object.  Numbers are kept in hundredths *)
(* (0.5 is 50, 1 is 100), so float() and int() are real conversions.       *)
(***************************************************************************)
EXTENDS Integers, Sequences, FiniteSets

\* ------------------------------------------------------------------ bounds
\* Number of lines of the long initial files.
MaxLines == 60
\* Length up to which the writers extend a short file, in tokens.
MaxFile == 4
\* Number of writer operations (appends and restarts) in one behaviour.
MaxEnvOps == 3
\* Number of database calls that fail in one behaviour.
MaxDbFailures == 1

\* ------------------------------------------------------- program constants
\* consume_messages_from_file(..., batch_size=10)
batch_size == 10
\* process_message: "if len(category_sentiments[category]) > 50"
WindowSize == 50
\* main: sys.exit(1) when the configuration cannot be read
ConfigFailureCode == 1
\* init_db: sys.exit(1) in its own "except Exception"
InitDbFailureCode == 1
\* consume_messages_from_file: sys.exit(10) on FileNotFoundError
FileNotFoundCode == 10
\* consume_messages_from_file: sys.exit(11) on any other exception
ReadErrorCode == 11

\* --------------------------------------------------------------- JSON values
JNum(h) == [t |-> "num", n |-> h, s |-> ""]
\* A JSON string whose text is a decimal numeral, such as "0.5".
JNumStr(h) == [t |-> "numstr", n |-> h, s |-> ""]
JStr(str) == [t |-> "str", n |-> 0, s |-> str]
JNull == [t |-> "null", n |-> 0, s |-> ""]
\* The value of a key the object does not have.
Absent == [t |-> "absent", n |-> 0, s |-> ""]

\* dict.get(key): None when the key is missing.
Get(o, key) == IF o[key] = Absent THEN JNull ELSE o[key]
\* dict.get(key, default)
GetDefault(o, key, d) == IF o[key] = Absent THEN d ELSE o[key]

\* float(v) raises for None and for a text that is no numeral.
FloatOk(v) == v.t \in {"num", "numstr"}
\* Mutant: float() drops the fraction.
FloatOfTruncated(v) == (v.n \div 100) * 100
FloatOf(v) == v.n
\* int(v) truncates a number, and raises for None, for a text that is no
\* numeral and for a numeral with a fraction ("3.7").
IntOk(v) == \/ v.t = "num"
            \/ v.t = "numstr" /\ v.n % 100 = 0
IntOf(v) == v.n \div 100
\* Python truthiness of a category value (None and "" are falsy).
Truthy(v) == \/ v.t = "str" /\ v.s # ""
             \/ v.t = "numstr"
             \/ v.t = "num" /\ v.n # 0

\* ------------------------------------------------------------------- tokens
\* One JSON object: the value of each key, Absent for a key it lacks.
Obj(msg, auth, cust, cat, sent, mlen) ==
    [message |-> msg, author |-> auth, customer |-> cust,
     timestamp |-> JStr("t1"), category |-> cat, sentiment |-> sent,
     keyword_mentioned |-> JStr("k"), message_length |-> mlen]
NoObj ==
    [message |-> Absent, author |-> Absent, customer |-> Absent,
     timestamp |-> Absent, category |-> Absent, sentiment |-> Absent,
     keyword_mentioned |-> Absent, message_length |-> Absent]
NL == [k |-> "nl", o |-> NoObj]
SP == [k |-> "sp", o |-> NoObj]
\* A text json.loads rejects, such as `not json` or half an object.
JUNK == [k |-> "junk", o |-> NoObj]
\* A JSON text that is no object, such as `42`.
SCALAR == [k |-> "scalar", o |-> NoObj]
ObjTok(o) == [k |-> "obj", o |-> o]

IsSpace(tok) == tok.k \in {"nl", "sp"}

RECURSIVE LStrip(_)
LStrip(str) ==
    IF str = <<>> THEN <<>>
    ELSE IF IsSpace(Head(str)) THEN LStrip(Tail(str)) ELSE str

RECURSIVE RStrip(_)
RStrip(str) ==
    IF str = <<>> THEN <<>>
    ELSE IF IsSpace(str[Len(str)]) THEN RStrip(SubSeq(str, 1, Len(str) - 1))
    ELSE str

\* str.strip()
Strip(str) == RStrip(LStrip(str))

\* json.loads accepts exactly one JSON text.
JsonOk(str) == Len(str) = 1 /\ str[1].k \in {"obj", "scalar"}
JsonLoads(str) == str[1]

\* ------------------------------------------------------------ Python lists
\* list[-k:]  (the whole list when k = 0 or k >= len)
PySuffix(list, k) ==
    IF k = 0 \/ k >= Len(list) THEN list
    ELSE SubSeq(list, Len(list) - k + 1, Len(list))

\* ---------------------------------------------------------------- messages
\* generate_messages: a text, a customer (no author), a category, a sentiment
\* rounded to hundredths in [0, 1], a keyword and the length of the text.
ProducerMsg(cat, sent) ==
    Obj(JStr("I just used a meal! It was amazing."), Absent, JStr("Ben"),
        JStr(cat), JNum(sent), JNum(3500))
ProducerMsgs == {ProducerMsg("food", 87), ProducerMsg("food", 0)}

\* Objects another writer may put in the file.
GoodMsg(cat, sent, auth) == Obj(JStr("a"), auth, Absent, JStr(cat), JNum(sent), JNum(100))
\* message_length is no numeral.
BadLenMsg == Obj(JStr("a"), JStr("A"), Absent, JStr("x"), JNum(50), JStr("abc"))
\* sentiment is no numeral.
BadSentMsg == Obj(JStr("a"), JStr("A"), Absent, JStr("x"), JStr("abc"), JNum(100))
\* neither message nor category.
BareMsg == Obj(Absent, JStr("A"), Absent, Absent, JNum(50), JNum(100))
\* sentiment 0.0, and no sentiment at all.
ZeroMsg == Obj(JStr("a"), JStr("A"), Absent, JStr("x"), JNum(0), JNum(100))
NoSentMsg == Obj(JStr("a"), JStr("B"), Absent, JStr("x"), Absent, Absent)
\* category "", and sentiment given as the text "0.5".
EmptyCatMsg == Obj(JStr("a"), JStr("B"), Absent, JStr(""), JNum(50), JNum(100))
NumStrMsg == Obj(JStr("a"), JNull, Absent, JStr("y"), JNumStr(50), JNumStr(100))

ExternalToks == {NL, SP, JUNK, ObjTok(GoodMsg("x", 50, JStr("A"))), ObjTok(BadLenMsg)}

\* ------------------------------------------------------- long initial files
\* The content of line i of each long file; the file is these lines, each
\* followed by its terminator.
Cycle(pattern, i) == pattern[((i - 1) % Len(pattern)) + 1]

MostlyX ==
    << ObjTok(GoodMsg("y", 70, JStr("B"))),
       ObjTok(GoodMsg("x", 10, JStr("A"))), ObjTok(GoodMsg("x", 20, JStr("B"))),
       ObjTok(GoodMsg("x", 30, JStr("A"))), ObjTok(GoodMsg("x", 10, JStr("A"))),
       ObjTok(GoodMsg("x", 20, JStr("B"))), ObjTok(GoodMsg("x", 30, JStr("A"))) >>
TwoCategories ==
    << ObjTok(GoodMsg("x", 10, JStr("A"))), ObjTok(GoodMsg("y", 20, JStr("B"))),
       ObjTok(GoodMsg("x", 30, JNull)), ObjTok(GoodMsg("x", 40, JStr("A"))),
       ObjTok(ProducerMsg("food", 87)) >>
Mixed ==
    << ObjTok(GoodMsg("x", 50, JStr("A"))), ObjTok(ZeroMsg), SP,
       ObjTok(GoodMsg("y", 70, JStr("B"))), ObjTok(BadLenMsg), ObjTok(BadSentMsg),
       ObjTok(BareMsg), SCALAR, ObjTok(NoSentMsg), ObjTok(EmptyCatMsg),
       ObjTok(NumStrMsg) >>
\* One well-formed line, as the producer writes it, again and again.
Identical ==
    << ObjTok(Obj(JStr("a"), Absent, JStr("Alice"), JStr("x"), JNum(50), JNum(100))) >>
\* Producer lines whose sentiment came out as 0.0.
AllZero == << ObjTok(ProducerMsg("food", 0)) >>
Patterns == {MostlyX, TwoCategories, Mixed, Identical, AllZero}

LongFile(pattern, n) ==
    [j \in 1..(2 * n) |-> IF j % 2 = 1 THEN Cycle(pattern, (j + 1) \div 2) ELSE NL]

\* ------------------------------------------------------------------- state
VARIABLES
    \* the live data file: whether the path exists, and its content
    live_exists, live_data,
    \* the consumer's open handle reads an unlinked file: its content
    fh_detached, old_data,
    \* writer operations so far
    env_ops,
    \* consume_messages_from_file: where it is, and its locals
    pc, exit_code, last_position, fpos, line, message, processed_message,
    batch_count,
    \* the module-level tracking lists, and the lines drawn on the axes
    category_sentiments, cs_keys, time_series, plotted,
    \* sentiment.db
    sentiment_messages, author_sentiment, db_failures,
    \* history: values recorded per category, inputs that carried a category
    \* and a nonzero sentiment, calls of insert_message,
    \* calculate_average_sentiment and update_sentiment_chart
    recorded, n_carrying, n_handed, n_calc, n_chart,
    \* history: why the process ended, inserts that failed, tokens handed to
    \* the loop body, whether the file was ever unlinked
    exit_cause, n_lost, n_read, truncated

file_vars == <<live_exists, live_data, fh_detached, old_data, env_ops>>
loop_vars == <<pc, exit_code, last_position, fpos, line, message,
               processed_message, batch_count>>
agg_vars == <<category_sentiments, cs_keys, time_series>>
db_vars == <<sentiment_messages, author_sentiment, db_failures>>
hist_vars == <<recorded, n_carrying, n_handed, n_calc, n_chart>>
run_vars == <<exit_cause, n_lost, n_read, truncated>>
vars == <<file_vars, loop_vars, agg_vars, plotted, db_vars, hist_vars, run_vars>>

\* process_message returned None.
None == [none |-> TRUE]

\* The state when main starts, with the live file there or not and, when
\* it is, holding one of `files`.
InitWith(there, files) ==
    /\ live_exists \in there
    /\ live_data \in IF live_exists THEN files ELSE {<<>>}
    /\ fh_detached = FALSE
    /\ old_data = <<>>
    /\ env_ops = 0
    /\ pc = "config"
    /\ exit_code = -1
    /\ last_position = 0
    /\ fpos = 0
    /\ line = <<>>
    /\ message = SCALAR
    /\ processed_message = None
    /\ batch_count = 0
    /\ category_sentiments = <<>>
    /\ cs_keys = <<>>
    /\ time_series = <<>>
    /\ plotted = <<>>
    /\ sentiment_messages = <<>>
    /\ author_sentiment = <<>>
    /\ db_failures = 0
    /\ recorded = <<>>
    /\ n_carrying = 0
    /\ n_handed = 0
    /\ n_calc = 0
    /\ n_chart = 0
    /\ exit_cause = "none"
    /\ n_lost = 0
    /\ n_read = 0
    /\ truncated = FALSE

Init == InitWith(BOOLEAN, {<<>>} \cup {LongFile(p, MaxLines) : p \in Patterns})

\* ---------------------------------------------------------------------- main
\* STEP 1: the configuration is read, or main ends the process.
ReadConfig ==
    /\ pc = "config"
    /\ \E ok \in BOOLEAN :
        /\ pc' = IF ok THEN "init_db" ELSE "exited"
        /\ exit_code' = IF ok THEN exit_code ELSE ConfigFailureCode
        /\ exit_cause' = IF ok THEN exit_cause ELSE "config"
    /\ UNCHANGED <<file_vars, last_position, fpos, line, message,
                   processed_message, batch_count, agg_vars, plotted, db_vars,
                   hist_vars, n_lost, n_read, truncated>>

\* STEP 2: init_db creates the tables, or ends the process itself: its
\* SystemExit is no Exception, so main's "sys.exit(2)" is never reached.
InitDb ==
    /\ pc = "init_db"
    /\ \E ok \in BOOLEAN :
        /\ pc' = IF ok THEN "open" ELSE "exited"
        /\ exit_code' = IF ok THEN exit_code ELSE InitDbFailureCode
        /\ exit_cause' = IF ok THEN exit_cause ELSE "init_db"
    /\ UNCHANGED <<file_vars, last_position, fpos, line, message,
                   processed_message, batch_count, agg_vars, plotted, db_vars,
                   hist_vars, n_lost, n_read, truncated>>

\* ------------------------------------------------------- process_message
\* Mutant: the sentiment is not tested.
GuardCategoryOnly(category, sentiment) == Truthy(category)

\* "if category and sentiment:"
Guard(category, sentiment) == Truthy(category) /\ sentiment # 0

\* Mutant: list.pop() takes the newest value.
PopLast(list) == SubSeq(list, 1, Len(list) - 1)

\* list.pop(0)
PopFirst(list) == Tail(list)

\* category_sentiments[category].append(sentiment), then the cut to 50
WindowAppend(window, sentiment) ==
    LET appended == Append(window, sentiment)
    IN IF Len(appended) > WindowSize THEN PopFirst(appended) ELSE appended

\* Mutant: the index starts at 0.
NextIndexStale(series) == Len(series)

\* the value time_series.append(...) is given
NextIndex(series) == Len(series) + 1

\* Mutant: the index is not advanced.
NotIndexed(series) == series

\* time_series.append(len(time_series) + 1)
Indexed(series) == Append(series, NextIndex(series))

\* category_sentiments (a defaultdict of lists) after the update
Tracked(category, sentiment) ==
    [c \in DOMAIN category_sentiments \cup {category} |->
        IF c = category
        THEN WindowAppend(IF c \in DOMAIN category_sentiments
                          THEN category_sentiments[c] ELSE <<>>, sentiment)
        ELSE category_sentiments[c]]

\* the dictionary process_message returns
Processed(o, category, sentiment) ==
    [message |-> Get(o, "message"),
     author |-> Get(o, "author"),
     timestamp |-> Get(o, "timestamp"),
     category |-> category,
     sentiment |-> sentiment,
     keyword_mentioned |-> Get(o, "keyword_mentioned"),
     message_length |-> IntOf(GetDefault(o, "message_length", JNum(0)))]

\* Mutant: an event the guard kept out of the windows is not returned.
ReturnedIfTracked(o, category, sentiment) ==
    IF Guard(category, sentiment) /\ IntOk(GetDefault(o, "message_length", JNum(0)))
    THEN Processed(o, category, sentiment)
    ELSE None

\* What process_message returns: the dictionary, or None when int() raised.
Returned(o, category, sentiment) ==
    IF IntOk(GetDefault(o, "message_length", JNum(0)))
    THEN Processed(o, category, sentiment)
    ELSE None

\* The input carries a non-empty category and a nonzero sentiment.
Carrying(tok) ==
    /\ tok.k = "obj"
    /\ tok.o.category.t \in {"str", "numstr"} /\ tok.o.category # JStr("")
    /\ tok.o.sentiment.t \in {"num", "numstr"} /\ tok.o.sentiment.n # 0

ProcessMessage ==
    /\ pc = "process"
    /\ n_carrying' = IF Carrying(message) THEN n_carrying + 1 ELSE n_carrying
    /\ IF message.k # "obj"
       THEN \* message.get raises AttributeError
            /\ processed_message' = None
            /\ UNCHANGED <<agg_vars, recorded>>
       ELSE LET o == message.o
                category == Get(o, "category")
                raw == GetDefault(o, "sentiment", JNum(0))
            IN IF ~FloatOk(raw)
               THEN /\ processed_message' = None
                    /\ UNCHANGED <<agg_vars, recorded>>
               ELSE LET sentiment == FloatOf(raw)
                    IN /\ IF Guard(category, sentiment)
                          THEN /\ category_sentiments' = Tracked(category, sentiment)
                               /\ cs_keys' = IF category \in DOMAIN category_sentiments
                                             THEN cs_keys
                                             ELSE Append(cs_keys, category)
                               /\ time_series' = Indexed(time_series)
                               /\ recorded' =
                                    [c \in DOMAIN recorded \cup {category} |->
                                        IF c = category
                                        THEN Append(IF c \in DOMAIN recorded
                                                    THEN recorded[c] ELSE <<>>, sentiment)
                                        ELSE recorded[c]]
                          ELSE UNCHANGED <<agg_vars, recorded>>
                       /\ processed_message' = Returned(o, category, sentiment)
    /\ pc' = IF processed_message' # None THEN "insert" ELSE "next_line"
    /\ UNCHANGED <<file_vars, exit_code, last_position, fpos, line, message,
                   batch_count, plotted, db_vars, n_handed, n_calc, n_chart,
                   run_vars>>

\* ---------------------------------------------------------------- database
\* Mutant: every event from the batch_size-th on is due.
BatchDueAtLeast(count) == count >= batch_size

\* "if batch_count % batch_size == 0:"
BatchDue(count) == count % batch_size = 0

\* Mutant: the row is written although the call reported a failure.
StoredAnyway(rows, row, ok) == Append(rows, row)

\* The table after insert_message: a failed call leaves it as it was.
Stored(rows, row, ok) == IF ok THEN Append(rows, row) ELSE rows

\* insert_message, and the count of the batch.  A failure of the database is
\* logged inside insert_message; the failures explored are those of the
\* first batch.
InsertMessage ==
    /\ pc = "insert"
    /\ \E ok \in BOOLEAN :
        /\ ok \/ (db_failures < MaxDbFailures /\ n_handed < batch_size)
        /\ sentiment_messages' = Stored(sentiment_messages, processed_message, ok)
        /\ db_failures' = IF ok THEN db_failures ELSE db_failures + 1
        /\ n_lost' = IF ok THEN n_lost ELSE n_lost + 1
    /\ n_handed' = n_handed + 1
    /\ batch_count' = batch_count + 1
    /\ pc' = IF BatchDue(batch_count') THEN "calc" ELSE "next_line"
    /\ UNCHANGED <<file_vars, exit_code, last_position, fpos, line, message,
                   processed_message, agg_vars, plotted, author_sentiment,
                   recorded, n_carrying, n_calc, n_chart, exit_cause, n_read,
                   truncated>>

RECURSIVE SumOf(_, _)
\* SUM(sentiment) over the rows of one author
SumOf(rows, author) ==
    IF rows = <<>> THEN 0
    ELSE (IF Head(rows).author = author THEN Head(rows).sentiment ELSE 0)
         + SumOf(Tail(rows), author)

RECURSIVE CountOf(_, _)
CountOf(rows, author) ==
    IF rows = <<>> THEN 0
    ELSE (IF Head(rows).author = author THEN 1 ELSE 0) + CountOf(Tail(rows), author)

\* GROUP BY author: the authors of the rows, each once, in the order met
Authors(rows) ==
    LET first == {i \in 1..Len(rows) :
                    \A j \in 1..(i - 1) : rows[j].author # rows[i].author}
    IN [k \in 1..Cardinality(first) |->
          rows[CHOOSE i \in first : Cardinality({j \in first : j <= i}) = k].author]

\* INSERT OR REPLACE on the primary key author: a NULL key equals no key.
Upsert(table, row) ==
    IF row.author = JNull THEN Append(table, row)
    ELSE Append(SelectSeq(table, LAMBDA r : r.author # row.author), row)

RECURSIVE UpsertAll(_, _, _)
UpsertAll(table, authors, rows) ==
    IF authors = <<>> THEN table
    ELSE UpsertAll(Upsert(table, [author |-> Head(authors),
                                  total |-> SumOf(rows, Head(authors)),
                                  count |-> CountOf(rows, Head(authors))]),
                   Tail(authors), rows)

\* calculate_average_sentiment: the average is kept as total and count.
CalculateAverage ==
    /\ pc = "calc"
    /\ \E ok \in BOOLEAN :
        /\ ok \/ db_failures < MaxDbFailures
        /\ author_sentiment' =
             IF ok THEN UpsertAll(author_sentiment, Authors(sentiment_messages),
                                  sentiment_messages)
             ELSE author_sentiment
        /\ db_failures' = IF ok THEN db_failures ELSE db_failures + 1
    /\ n_calc' = n_calc + 1
    /\ pc' = "chart"
    /\ UNCHANGED <<file_vars, exit_code, last_position, fpos, line, message,
                   processed_message, batch_count, agg_vars, plotted,
                   sentiment_messages, recorded, n_carrying, n_handed, n_chart,
                   run_vars>>

\* ---------------------------------------------------- update_sentiment_chart
\* Mutant: the oldest index values are kept.
TrimXFront(series, sentiments) == SubSeq(series, 1, Len(sentiments))

\* "x_values = time_series[-len(sentiments):]"
TrimX(series, sentiments) == PySuffix(series, Len(sentiments))

\* "sentiments = sentiments[-len(time_series):]"
TrimY(sentiments, series) == PySuffix(sentiments, Len(series))

RECURSIVE ChartLines(_, _, _)
\* The loop over category_sentiments.items(): x_values is <<>> while the
\* local is unbound and <<list>> once assigned; it survives from one category
\* to the next.  ax.plot raises for an unbound x_values and for x and y of
\* different lengths.
ChartLines(keys, x_values, drawn) ==
    IF keys = <<>> THEN [ok |-> TRUE, lines |-> drawn]
    ELSE LET category == Head(keys)
             sentiments == category_sentiments[category]
             ys == IF Len(sentiments) > Len(time_series)
                   THEN TrimY(sentiments, time_series) ELSE sentiments
             xs == IF Len(sentiments) > Len(time_series) THEN x_values
                   ELSE IF Len(sentiments) < Len(time_series)
                        THEN <<TrimX(time_series, sentiments)>>
                        ELSE <<time_series>>
         IN IF xs = <<>> \/ Len(xs[1]) # Len(ys)
            THEN [ok |-> FALSE, lines |-> drawn]
            ELSE ChartLines(Tail(keys), xs,
                            Append(drawn, [category |-> category, x |-> xs[1], y |-> ys]))

\* update_sentiment_chart; an exception it raises ends the process in
\* consume_messages_from_file's "except Exception".
UpdateChart ==
    /\ pc = "chart"
    /\ n_chart' = n_chart + 1
    /\ IF time_series = <<>>
       THEN /\ plotted' = <<>>
            /\ pc' = "next_line"
            /\ UNCHANGED <<exit_code, exit_cause>>
       ELSE LET res == ChartLines(cs_keys, <<>>, <<>>)
            IN /\ plotted' = res.lines
               /\ pc' = IF res.ok THEN "next_line" ELSE "exited"
               /\ exit_code' = IF res.ok THEN exit_code ELSE ReadErrorCode
               /\ exit_cause' = IF res.ok THEN exit_cause ELSE "chart"
    /\ UNCHANGED <<file_vars, last_position, fpos, line, message,
                   processed_message, batch_count, agg_vars, db_vars,
                   recorded, n_carrying, n_handed, n_calc, n_lost, n_read,
                   truncated>>

\* ----------------------------------------------- consume_messages_from_file
\* What the open handle reads.
HandleData == IF fh_detached THEN old_data ELSE live_data

\* The offset of the end of the line that starts after offset `from`: its
\* terminator, or the end of the data when it has none yet.
RECURSIVE LineEnd(_, _)
LineEnd(data, from) ==
    IF from + 1 >= Len(data) \/ data[from + 1] = NL THEN from + 1
    ELSE LineEnd(data, from + 1)

\* Mutant: a pass starts at the end of the file.
OpenAtEnd ==
    /\ pc = "open"
    /\ IF live_exists
       THEN /\ fpos' = Len(live_data)
            /\ fh_detached' = FALSE
            /\ pc' = "next_line"
            /\ UNCHANGED <<exit_code, exit_cause>>
       ELSE \* FileNotFoundError
            /\ pc' = "exited"
            /\ exit_code' = FileNotFoundCode
            /\ exit_cause' = "file_not_found"
            /\ UNCHANGED <<fpos, fh_detached>>
    /\ UNCHANGED <<live_exists, live_data, old_data, env_ops, last_position, line,
                   message, processed_message, batch_count, agg_vars, plotted,
                   db_vars, hist_vars, n_lost, n_read, truncated>>

\* open(live_data_path) and file.seek(last_position)
Open ==
    /\ pc = "open"
    /\ IF live_exists
       THEN /\ fpos' = last_position
            /\ fh_detached' = FALSE
            /\ pc' = "next_line"
            /\ UNCHANGED <<exit_code, exit_cause>>
       ELSE \* FileNotFoundError
            /\ pc' = "exited"
            /\ exit_code' = FileNotFoundCode
            /\ exit_cause' = "file_not_found"
            /\ UNCHANGED <<fpos, fh_detached>>
    /\ UNCHANGED <<live_exists, live_data, old_data, env_ops, last_position, line,
                   message, processed_message, batch_count, agg_vars, plotted,
                   db_vars, hist_vars, n_lost, n_read, truncated>>

\* "for line in file": the next line, terminated or not, or the end of the loop
NextLine ==
    /\ pc = "next_line"
    /\ IF fpos >= Len(HandleData)
       THEN /\ pc' = "tell"
            /\ UNCHANGED <<fpos, line, n_read>>
       ELSE /\ line' = SubSeq(HandleData, fpos + 1, LineEnd(HandleData, fpos))
            /\ fpos' = LineEnd(HandleData, fpos)
            /\ n_read' = n_read + Len(line')
            /\ pc' = "decode"
    /\ UNCHANGED <<file_vars, exit_code, last_position, message,
                   processed_message, batch_count, agg_vars, plotted, db_vars,
                   hist_vars, exit_cause, n_lost, truncated>>

\* "if line.strip(): message = json.loads(line.strip())"; a JSONDecodeError
\* reaches "except Exception" and sys.exit(11).
Decode ==
    /\ pc = "decode"
    /\ IF Strip(line) = <<>>
       THEN /\ pc' = "next_line"
            /\ UNCHANGED <<message, exit_code, exit_cause>>
       ELSE IF JsonOk(Strip(line))
       THEN /\ message' = JsonLoads(Strip(line))
            /\ pc' = "process"
            /\ UNCHANGED <<exit_code, exit_cause>>
       ELSE /\ pc' = "exited"
            /\ exit_code' = ReadErrorCode
            /\ exit_cause' = "decode"
            /\ UNCHANGED message
    /\ UNCHANGED <<file_vars, last_position, fpos, line, processed_message,
                   batch_count, agg_vars, plotted, db_vars, hist_vars, n_lost,
                   n_read, truncated>>

\* Mutant: the offset of the end of the pass is not kept.
TellKeepsOffset ==
    /\ pc = "tell"
    /\ last_position' = last_position
    /\ pc' = "sleep"
    /\ UNCHANGED <<file_vars, exit_code, fpos, line, message, processed_message,
                   batch_count, agg_vars, plotted, db_vars, hist_vars, run_vars>>

\* "last_position = file.tell()" and the end of the with block
Tell ==
    /\ pc = "tell"
    /\ last_position' = fpos
    /\ pc' = "sleep"
    /\ UNCHANGED <<file_vars, exit_code, fpos, line, message, processed_message,
                   batch_count, agg_vars, plotted, db_vars, hist_vars, run_vars>>

\* time.sleep(interval_secs)
Sleep ==
    /\ pc = "sleep"
    /\ pc' = "open"
    /\ UNCHANGED <<file_vars, exit_code, last_position, fpos, line, message,
                   processed_message, batch_count, agg_vars, plotted, db_vars,
                   hist_vars, run_vars>>

\* Mutant: the interrupt is handled like any other exception of the loop.
InterruptAsError ==
    /\ pc \notin {"config", "init_db", "exited"}
    /\ pc' = "exited"
    /\ exit_code' = ReadErrorCode
    /\ exit_cause' = "interrupt"
    /\ UNCHANGED <<file_vars, last_position, fpos, line, message,
                   processed_message, batch_count, agg_vars, plotted, db_vars,
                   hist_vars, n_lost, n_read, truncated>>

\* main, STEP 3: a KeyboardInterrupt raised anywhere in the loop passes every
\* "except Exception", is caught by main, main returns and the status is 0.
Interrupt ==
    /\ pc \notin {"config", "init_db", "exited"}
    /\ pc' = "exited"
    /\ exit_code' = 0
    /\ exit_cause' = "interrupt"
    /\ UNCHANGED <<file_vars, last_position, fpos, line, message,
                   processed_message, batch_count, agg_vars, plotted, db_vars,
                   hist_vars, n_lost, n_read, truncated>>

\* ------------------------------------------------------------------ writers
\* The writers act on short files only; the long files are read as they are.
Short == Len(live_data) <= MaxFile /\ env_ops < MaxEnvOps

\* producer main: "f.write(json.dumps(message) + '\n')" in append mode
ProducerAppend ==
    /\ Short
    /\ Len(live_data) + 2 <= MaxFile
    /\ \E m \in ProducerMsgs :
        live_data' = live_data \o <<ObjTok(m), NL>>
    /\ live_exists' = TRUE
    /\ env_ops' = env_ops + 1
    /\ UNCHANGED <<fh_detached, old_data, loop_vars, agg_vars, plotted, db_vars,
                   hist_vars, run_vars>>

\* producer main at its start: "live_data_path.unlink()".  A handle the
\* consumer holds open keeps reading the unlinked file.
ProducerRestart ==
    /\ Short
    /\ live_exists
    /\ live_exists' = FALSE
    /\ live_data' = <<>>
    /\ IF pc \in {"next_line", "decode", "process", "insert", "calc", "chart", "tell"}
          /\ ~fh_detached
       THEN /\ fh_detached' = TRUE
            /\ old_data' = live_data
       ELSE UNCHANGED <<fh_detached, old_data>>
    /\ env_ops' = env_ops + 1
    /\ truncated' = TRUE
    /\ UNCHANGED <<loop_vars, agg_vars, plotted, db_vars, hist_vars, exit_cause,
                   n_lost, n_read>>

\* Any other writer of the file the consumer opens: one more piece of text.
ExternalWrite ==
    /\ Short
    /\ Len(live_data) < MaxFile
    /\ \E tok \in ExternalToks :
        live_data' = Append(live_data, tok)
    /\ live_exists' = TRUE
    /\ env_ops' = env_ops + 1
    /\ UNCHANGED <<fh_detached, old_data, loop_vars, agg_vars, plotted, db_vars,
                   hist_vars, run_vars>>

\* ------------------------------------------------------------ specification
Next ==
    \/ ReadConfig
    \/ InitDb
    \/ Open
    \/ NextLine
    \/ Decode
    \/ ProcessMessage
    \/ InsertMessage
    \/ CalculateAverage
    \/ UpdateChart
    \/ Tell
    \/ Sleep
    \/ Interrupt
    \/ ProducerAppend
    \/ ProducerRestart
    \/ ExternalWrite

Spec == Init /\ [][Next]_vars

\* The run of the liveness property: the live file is there from the start,
\* empty or holding well-formed lines, the producer alone writes to it and
\* only appends, the configuration is read, no call of the store fails and
\* nobody interrupts.
\* The lines of the file the fair run starts with.
LiveLines == 22

LiveInit == InitWith({TRUE}, {<<>>, LongFile(TwoCategories, LiveLines)})

\* One step of the consumer that neither ends the process nor fails a call
\* of the store.
Consume ==
    /\ \/ ReadConfig
       \/ InitDb
       \/ Open
       \/ NextLine
       \/ Decode
       \/ ProcessMessage
       \/ InsertMessage
       \/ CalculateAverage
       \/ UpdateChart
       \/ Tell
       \/ Sleep
    /\ pc' # "exited"
    /\ db_failures' = db_failures

NextLive ==
    \/ Consume
    \/ ProducerAppend

\* main runs the "while True" loop in the only thread of the process and
\* time.sleep returns: the consumer's next step is taken whenever there is one.
SpecLive == LiveInit /\ [][NextLive]_vars /\ WF_vars(Consume)

\* ==================================================================== claims

\* C1: a line that is not parseable JSON is skipped and never ends the
\* ingestion loop: the process is never stopped with status 11 by a line
\* json.loads rejects.
C1_MalformedLineSkipped ==
    ~(pc = "exited" /\ exit_code = 11 /\ Strip(line) # <<>> /\ ~JsonOk(Strip(line)))

\* C2: only newline-terminated lines reach the decoder, and after a poll the
\* cursor stands just behind a line terminator (or at 0), not behind a
\* trailing partial line.
C2_OnlyCompleteLinesConsumed ==
    /\ pc = "decode" => line[Len(line)] = NL
    /\ (pc = "sleep" /\ last_position > 0 /\ last_position <= Len(HandleData))
          => HandleData[last_position] = NL

\* C3: a poll that finds the file shorter than the stored offset starts
\* again at offset 0, and every completed poll leaves the stored offset at
\* most the length of the file it read.
C3_TruncationResetsOffset ==
    [][/\ (pc = "open" /\ pc' = "next_line" /\ Len(live_data) < last_position)
            => fpos' = 0
       /\ (pc = "tell" /\ pc' = "sleep") => last_position' <= Len(HandleData)]_vars

\* An input process_message accepts: an object whose sentiment and
\* message_length, when given, are numerals (message_length a whole one).
Acceptable(tok) ==
    /\ tok.k = "obj"
    /\ tok.o.sentiment.t \in {"num", "numstr", "absent"}
    /\ \/ tok.o.message_length.t \in {"num", "absent"}
       \/ tok.o.message_length.t = "numstr" /\ tok.o.message_length.n % 100 = 0

RECURSIVE AcceptedUpTo(_, _)
\* The accepted lines among the first `upto` tokens of a file of terminated
\* one-token lines.
AcceptedUpTo(data, upto) ==
    IF upto = 0 THEN 0
    ELSE (IF Acceptable(data[upto]) THEN 1 ELSE 0) + AcceptedUpTo(data, upto - 1)

C5_RollingWindow ==
    /\ DOMAIN category_sentiments = DOMAIN recorded
    /\ \A c \in DOMAIN category_sentiments :
        LET w == category_sentiments[c]
            r == recorded[c]
        IN /\ Len(w) <= 50
           /\ Len(w) = IF Len(r) > 50 THEN 50 ELSE Len(r)
           /\ \A i \in 1..Len(w) : w[i] = r[Len(r) - Len(w) + i]

\* More than 50 values were recorded for one category.
C5_Witness ==
    \E c \in DOMAIN recorded :
        /\ Len(recorded[c]) > 50
        /\ Len(category_sentiments[c]) = 50

\* The sentiment is 0.0 or absent, or the category is empty or absent.
ZeroOrNoCategory(o) ==
    \/ o.sentiment = Absent
    \/ o.sentiment.t \in {"num", "numstr"} /\ o.sentiment.n = 0
    \/ o.category \in {Absent, JNull, JStr("")}

\* C6: processing an event whose sentiment is 0.0 or absent, or whose
\* category is empty or absent, changes no window, creates none, and leaves
\* the index history as it is.
C6_GuardLeavesAggregator ==
    [][(pc = "process" /\ pc' \in {"insert", "next_line"}
          /\ message.k = "obj" /\ ZeroOrNoCategory(message.o))
       => UNCHANGED <<category_sentiments, cs_keys, time_series>>]_vars

\* Such an event was processed, after others had been recorded.
C6_Witness ==
    /\ pc = "insert"
    /\ message.k = "obj" /\ ZeroOrNoCategory(message.o)
    /\ processed_message # None /\ processed_message.sentiment = 0
    /\ time_series # <<>>

\* C7: the message index history is 1..n, n the number of inputs processed
\* that carried a non-empty category and a nonzero sentiment, whatever was
\* evicted from the windows.
C7_MessageIndex ==
    /\ Len(time_series) = n_carrying
    /\ \A i \in 1..Len(time_series) : time_series[i] = i

\* The index has passed the window capacity, with other inputs between.
C7_Witness ==
    /\ Len(time_series) > WindowSize
    /\ \E c \in DOMAIN category_sentiments : Len(category_sentiments[c]) = WindowSize

\* The lines drawn are one per category: y the category's window, x the
\* same number of the most recent index values.
ChartAligned(lines) ==
    /\ Len(lines) = Cardinality(DOMAIN category_sentiments)
    /\ \A c \in DOMAIN category_sentiments :
        \E i \in 1..Len(lines) :
            /\ lines[i].category = c
            /\ lines[i].y = category_sentiments[c]
            /\ Len(lines[i].x) = Len(lines[i].y)
            /\ Len(lines[i].y) <= Len(time_series)
            /\ \A j \in 1..Len(lines[i].x) :
                lines[i].x[j] = time_series[Len(time_series) - Len(lines[i].y) + j]

\* C8: a chart update with at least one recorded event draws, for every
\* category, x and y of the same length min(|window|, |index history|), y
\* the retained sentiments in order and x the most recent index values.
C8_SnapshotAligned ==
    [][(pc = "chart" /\ pc' # pc /\ exit_code' # 0 /\ time_series # <<>>)
       => (pc' = "next_line" /\ ChartAligned(plotted'))]_vars

\* A chart was drawn with two categories, one of them cut to 50 values.
C8_Witness ==
    /\ pc = "next_line" /\ n_chart > 0 /\ n_chart * batch_size = n_handed
    /\ Len(plotted) >= 2
    /\ \E i \in 1..Len(plotted) :
        /\ Len(plotted[i].y) = WindowSize
        /\ plotted[i].x[1] > 1

\* C9: every record handed to insert_message has a message and a category.
C9_NoPartialEventStored ==
    pc = "insert" => /\ processed_message.message # JNull
                     /\ processed_message.category # JNull

\* C10: an input process_message rejects has changed no category window
\* and not the message index.
C10_RejectedInputNoEffect ==
    [][(pc = "process" /\ pc' = "next_line")
       => UNCHANGED <<category_sentiments, time_series>>]_vars

\* C11: the stored message_length is the length of the message text when
\* the input gives none, and the given whole number otherwise.
C11_MessageLength ==
    (pc = "insert" /\ message.o.message.t = "str")
        => LET given == message.o.message_length
           IN IF given = Absent
              THEN processed_message.message_length = Len(message.o.message.s)
              ELSE given.t = "num"
                     => processed_message.message_length * 100 = given.n

\* C12: a failed configuration read, a failed init_db and a missing live
\* file end the process with three different nonzero statuses, and an
\* interrupt ends it with status 0.
C12_DistinctExitCodes ==
    pc = "exited" =>
        /\ exit_cause = "config"
             => exit_code \notin {0, InitDbFailureCode, FileNotFoundCode}
        /\ exit_cause = "init_db"
             => exit_code \notin {0, ConfigFailureCode, FileNotFoundCode}
        /\ exit_cause = "file_not_found"
             => exit_code \notin {0, ConfigFailureCode, InitDbFailureCode}
        /\ exit_cause = "interrupt" => exit_code = 0

\* C13: a failed insert loses its event and nothing else: the event log
\* holds the handed events but the lost ones, no failure of an insert ends
\* the process, and in a file nobody else writes every accepted line read
\* so far was handed to insert_message once, the ones after a failure too.
C13_InsertFailureNotFatal ==
    /\ Len(sentiment_messages) = n_handed - n_lost
    /\ exit_cause \in {"none", "config", "init_db", "file_not_found", "decode",
                       "chart", "interrupt"}
    /\ (pc = "next_line" /\ env_ops = 0 /\ live_exists)
         => n_handed = AcceptedUpTo(live_data, fpos)

\* An insert failed and the events of the lines behind it were stored.
C13_Witness ==
    /\ n_lost = 1
    /\ pc = "next_line"
    /\ Len(sentiment_messages) >= batch_size
    /\ exit_code = -1

\* The rows of the summary table for one author.
RowsOf(table, a) == SelectSeq(table, LAMBDA r : r.author = a)

\* C14: after a recompute that succeeded the summary table holds one row
\* for each author of the event log, the NULL author included, with the sum
\* and the count of that author's sentiments.
C14_OneRowPerAuthor ==
    [][(pc = "calc" /\ pc' = "chart" /\ db_failures' = db_failures)
       => LET authors == Authors(sentiment_messages)
          IN /\ Len(author_sentiment') = Len(authors)
             /\ \A i \in 1..Len(authors) :
                  RowsOf(author_sentiment', authors[i])
                    = << [author |-> authors[i],
                          total |-> SumOf(sentiment_messages, authors[i]),
                          count |-> CountOf(sentiment_messages, authors[i])] >>]_vars

\* C15: after the first n lines of a file of identical well-formed lines
\* (category "x", sentiment 0.5; n at most 50) the triggers have fired
\* n \div batch_size times each, n records are stored, the window of "x"
\* holds n times 0.5 and the index history is 1..n.
C15_IdenticalLines ==
    (/\ live_exists /\ env_ops = 0 /\ db_failures = 0
     /\ live_data = LongFile(Identical, MaxLines)
     /\ pc = "next_line" /\ fpos <= 2 * WindowSize)
        => LET n == fpos \div 2
           IN /\ n_calc = n \div batch_size
              /\ n_chart = n \div batch_size
              /\ Len(sentiment_messages) = n
              /\ time_series = [i \in 1..n |-> i]
              /\ n > 0 => /\ cs_keys = <<JStr("x")>>
                          /\ category_sentiments[JStr("x")] = [i \in 1..n |-> 50]

\* Ten identical lines were read: one trigger, ten records.
C15_Witness ==
    /\ live_data = LongFile(Identical, MaxLines) /\ env_ops = 0 /\ db_failures = 0
    /\ pc = "next_line" /\ fpos = 2 * batch_size
    /\ n_calc = 1 /\ n_chart = 1
    /\ Len(sentiment_messages) = batch_size

\* C16: an interrupt in the ingestion loop ends the process with status 0,
\* and once the process has ended no line is read, decoded, aggregated or
\* stored.
C16_InterruptIsGraceful ==
    [][/\ (exit_cause # "interrupt" /\ exit_cause' = "interrupt")
            => /\ pc' = "exited" /\ exit_code' = 0
               /\ UNCHANGED <<agg_vars, plotted, db_vars, hist_vars, n_read>>
       /\ pc = "exited"
            => UNCHANGED <<loop_vars, agg_vars, plotted, db_vars, hist_vars,
                           exit_cause, n_lost, n_read>>]_vars

\* The interrupt came between the aggregation of a line and its storage,
\* with lines left in the file.
C16_Witness ==
    /\ pc = "exited" /\ exit_cause = "interrupt" /\ exit_code = 0
    /\ Len(sentiment_messages) = n_handed
    /\ n_carrying = n_handed + 1
    /\ n_handed > 0
    /\ fpos < Len(live_data)

\* C17: while the live file is only appended to, the text handed to the
\* loop body is the file's text in order, each piece once: a pass goes on
\* where the last one ended, and the line being decoded is the piece of the
\* file just before the cursor.
C17_EachLineOnce ==
    ~truncated =>
        /\ pc \in {"next_line", "decode", "process", "insert", "calc", "chart", "tell"}
             => fpos = n_read
        /\ pc \in {"config", "init_db", "open", "sleep"} => last_position = n_read
        /\ n_read <= Len(live_data)
        /\ pc = "decode" => line = SubSeq(live_data, n_read - Len(line) + 1, n_read)

\* A later pass decodes a line that was appended after the first pass.
C17_Witness ==
    /\ ~truncated /\ env_ops > 0
    /\ pc = "decode"
    /\ last_position > 0
    /\ fpos > last_position
    /\ n_read = fpos

\* C19: no window is longer than the index history, so the chart never
\* meets the branch that leaves x_values unassigned, and never fails.
C19_WindowWithinIndex ==
    /\ \A c \in DOMAIN category_sentiments :
         Len(category_sentiments[c]) <= Len(time_series)
    /\ exit_cause # "chart"

\* A chart was drawn for a window as long as the index history.
C19_Witness ==
    /\ n_chart >= 1
    /\ plotted # <<>>
    /\ \E c \in DOMAIN category_sentiments :
         /\ Len(category_sentiments[c]) = Len(time_series)
         /\ Len(time_series) >= batch_size

\* C20: an event with sentiment 0.0 or without a category that decodes is
\* handed to insert_message, every event handed to it advances the batch
\* count, and a chart update with an empty index history draws nothing and
\* the loop goes on.
C20_UntrackedStillStored ==
    [][/\ (/\ pc = "process" /\ pc' \notin {"process", "exited"}
           /\ Acceptable(message) /\ ZeroOrNoCategory(message.o))
            => /\ pc' = "insert"
               /\ processed_message' # None
               /\ UNCHANGED agg_vars
       /\ (pc = "insert" /\ pc' \notin {"insert", "exited"})
            => /\ batch_count' = batch_count + 1
               /\ n_handed' = n_handed + 1
       /\ (pc = "chart" /\ pc' \notin {"chart", "exited"} /\ time_series = <<>>)
            => /\ pc' = "next_line"
               /\ plotted' = plotted]_vars

\* A batch of events the guard kept out of the windows was stored and the
\* triggers fired with an empty index history.
C20_Witness ==
    /\ n_chart >= 1
    /\ time_series = <<>>
    /\ plotted = <<>>
    /\ Len(sentiment_messages) >= batch_size
    /\ Len(sentiment_messages) > Len(time_series)
    /\ pc = "next_line"

\* Line k of a file of one-token lines is in the live file.
LinePresent(k) == Len(live_data) >= 2 * k

\* Row k of the event log is the record process_message makes of line k.
LineStored(k) ==
    /\ LinePresent(k)
    /\ Len(sentiment_messages) >= k
    /\ LET o == live_data[2 * k - 1].o
       IN sentiment_messages[k]
            = Processed(o, Get(o, "category"),
                        FloatOf(GetDefault(o, "sentiment", JNum(0))))

\* C18: with the file present and only appended to, well-formed lines, a
\* store that does not fail and a poll loop that keeps running, every line
\* of the file is in the end decoded and appended to the event log.
C18_EveryLineStored ==
    \A k \in 1..LiveLines : LinePresent(k) ~> LineStored(k)

\* Two lines the producer appended while the consumer ran are stored.
C18_Witness ==
    /\ env_ops = 2
    /\ pc = "sleep"
    /\ last_position = 4
    /\ LineStored(1) /\ LineStored(2)
    /\ Len(sentiment_messages) = 2

====
